---- MODULE Spec2Model ----
(***************************************************************************)
(* Model of jolt-raylib-hello-world: the PhysicsEngine wrapper around Jolt *)
(* (physics.h / physics.cpp), the collision-layer policy, and the main     *)
(* loop of main.cpp with Game_Update.                                      *)
(*                                                                         *)
(* The specifications share the handlers:                                  *)
(*   Spec       the program main() as written (one fixed call order);      *)
(*   SpecFair   Spec, with main's control passing cleanup and return;      *)
(*   SpecAPI    any sequence of public PhysicsEngine operations on one     *)
(*              engine object, then its destruction;                       *)
(*   SpecFull   create_floor, create_ball and update on an engine whose    *)
(*              world is one body short of cMaxBodies;                     *)
(*   SpecLayers the layer functions of physics.h on any layer values.      *)
(*   SpecKeys   the key handling of main's loop and Game_Update.           *)
(*   SpecListeners  the listener callbacks on the job system's workers.    *)
(*                                                                         *)
(* A handler is a function from the state record to the state record, its  *)
(* statements composed in source order.  Every call into the library, and  *)
(* every construction / destruction of an object, is appended to `calls`,  *)
(* so that an ordering inside a handler is a property of the log.          *)
(*                                                                         *)
(* Units: lengths in half metres (kBallRadius = 0.5 m = 1), time in        *)
(* 1/120 s, so the tick interval 1/kTickrate = 1/60 s is 2.  Only the      *)
(* vertical coordinate of a pose is kept.                                  *)
(***************************************************************************)
EXTENDS Integers, Sequences, FiniteSets, TLC

---------------------------------------------------------------------------
(* Bounds of the model *)
MaxFrames == 5
\* the worker threads of the job system, and the listener callbacks of a step
NumWorkers == 2
MaxCallbacks == 3
MaxOps == 5
MaxLayer == 5
MaxFullOps == 3

(* Program constants *)
cMaxBodies == 1024
KEY_F9 == 298
kBallRadius == 1
kBallInitialPositionY == 20
kFloorPositionY == -2
kFloorHalfHeight == 2
NON_MOVING == 0
MOVING == 1
NUM_LAYERS == 2
\* namespace BroadPhaseLayers
BP_NON_MOVING == 0
BP_MOVING == 1
BP_NUM_LAYERS == 2

(* 1/kTickrate seconds, in time units *)
TickInterval == 2

(* The library's integrator, abstracted: gravity per time unit squared,    *)
(* restitution in tenths (SetRestitution(0.8F)), and the rebound speed     *)
(* under which a body in contact is put to sleep.                          *)
Gravity == 4
RestitutionTenths == 8
SleepSpeed == 4

(* Inputs *)
FrameTimes == {1, 2}
\* GetKeyPressed(): no key, F9, or some other key (KEY_A)
Keys == {0, KEY_F9, 65}
DeltaTimes == {-1, 1, 2}
FloorHalfHeights == {0, kFloorHalfHeight}
BallHeights == {3, kBallInitialPositionY}
BallRadii == {0, kBallRadius}
UBOutcomes == {"crash", "ignored"}
\* the radio buttons of the Dev Panel clicked in the runs: the first and the
\* last of kSphereColourLabels, or none
RadioClicks == {0, 6}
NoClick == -1
\* values of JPH::ObjectLayer and JPH::BroadPhaseLayer given to the layer
\* functions: the two layers of each namespace and values outside them
LayerValues == 0..MaxLayer

InvalidBodyID == 0
NullPtr == 0

VARIABLES
    \* PhysicsEngine members (physics.h:219-230)
    _step, _physics_system, _temp_allocator, _job_system,
    _body_activation_listener, _contact_listener,
    _broad_phase_layer_interface, _object_vs_broadphase_layer_filter,
    _object_vs_object_layer_filter, _sphere_id, _floor_id,
    \* process-wide library state
    sInstance, typesRegistered, allocatorRegistered, traceInstalled,
    \* the heap: every object made with new / make_unique, by id
    objs,
    \* log of library calls and object lifetimes, error lines, process state
    calls, reported, crashed, engineAlive,
    \* main()'s locals (main.cpp:30-66) and the clock
    pc, now, tickTimer, keyQueue, debugMenu, sphere_position, frames,
    \* whether the tick gate fired in the last loop iteration, what the last
    \* update call returned, and the number of calls made by an API caller
    gateFired, lastReturn, ops,
    \* main()'s selected_sphere_colour (main.cpp:66) and the values
    \* GetFrameTime() has returned so far (main.cpp:96), oldest first
    selected_sphere_colour, frame_times,
    \* a call of one of the layer functions of physics.h: its arguments and
    \* what came of it
    argLayer1, argLayer2, layerCall,
    \* the key codes Game_Update has taken off the queue, oldest first (kept
    \* by the specification of the key handling only), and the lines the
    \* listener callbacks have logged, each with what the callback returned
    processed, listenerLog,
    \* for each worker thread of the job system, the listener callback it
    \* is inside
    workers

engineVars == <<_step, _physics_system, _temp_allocator, _job_system,
    _body_activation_listener, _contact_listener,
    _broad_phase_layer_interface, _object_vs_broadphase_layer_filter,
    _object_vs_object_layer_filter, _sphere_id, _floor_id,
    sInstance, typesRegistered, allocatorRegistered, traceInstalled,
    objs, calls, reported, crashed, engineAlive, sphere_position, lastReturn>>

mainVars == <<pc, now, tickTimer, keyQueue, debugMenu, frames, gateFired, ops,
    selected_sphere_colour, frame_times>>

layerVars == <<argLayer1, argLayer2, layerCall>>

historyVars == <<processed, listenerLog, workers>>

vars == <<engineVars, mainVars, layerVars, historyVars>>

---------------------------------------------------------------------------
(* The state the handlers work on, as one record *)
Cur ==
    [ _step |-> _step, _physics_system |-> _physics_system,
      _temp_allocator |-> _temp_allocator, _job_system |-> _job_system,
      _body_activation_listener |-> _body_activation_listener,
      _contact_listener |-> _contact_listener,
      _broad_phase_layer_interface |-> _broad_phase_layer_interface,
      _object_vs_broadphase_layer_filter |-> _object_vs_broadphase_layer_filter,
      _object_vs_object_layer_filter |-> _object_vs_object_layer_filter,
      _sphere_id |-> _sphere_id, _floor_id |-> _floor_id,
      sInstance |-> sInstance, typesRegistered |-> typesRegistered,
      allocatorRegistered |-> allocatorRegistered,
      traceInstalled |-> traceInstalled,
      objs |-> objs, calls |-> calls, reported |-> reported,
      crashed |-> crashed, engineAlive |-> engineAlive,
      sphere_position |-> sphere_position, lastReturn |-> lastReturn ]

Commit(s) ==
    /\ _step' = s._step
    /\ _physics_system' = s._physics_system
    /\ _temp_allocator' = s._temp_allocator
    /\ _job_system' = s._job_system
    /\ _body_activation_listener' = s._body_activation_listener
    /\ _contact_listener' = s._contact_listener
    /\ _broad_phase_layer_interface' = s._broad_phase_layer_interface
    /\ _object_vs_broadphase_layer_filter' = s._object_vs_broadphase_layer_filter
    /\ _object_vs_object_layer_filter' = s._object_vs_object_layer_filter
    /\ _sphere_id' = s._sphere_id
    /\ _floor_id' = s._floor_id
    /\ sInstance' = s.sInstance
    /\ typesRegistered' = s.typesRegistered
    /\ allocatorRegistered' = s.allocatorRegistered
    /\ traceInstalled' = s.traceInstalled
    /\ objs' = s.objs
    /\ calls' = s.calls
    /\ reported' = s.reported
    /\ crashed' = s.crashed
    /\ engineAlive' = s.engineAlive
    /\ sphere_position' = s.sphere_position
    /\ lastReturn' = s.lastReturn

\* the state is the record s
StartsAs(s) ==
    /\ _step = s._step
    /\ _physics_system = s._physics_system
    /\ _temp_allocator = s._temp_allocator
    /\ _job_system = s._job_system
    /\ _body_activation_listener = s._body_activation_listener
    /\ _contact_listener = s._contact_listener
    /\ _broad_phase_layer_interface = s._broad_phase_layer_interface
    /\ _object_vs_broadphase_layer_filter = s._object_vs_broadphase_layer_filter
    /\ _object_vs_object_layer_filter = s._object_vs_object_layer_filter
    /\ _sphere_id = s._sphere_id
    /\ _floor_id = s._floor_id
    /\ sInstance = s.sInstance
    /\ typesRegistered = s.typesRegistered
    /\ allocatorRegistered = s.allocatorRegistered
    /\ traceInstalled = s.traceInstalled
    /\ objs = s.objs
    /\ calls = s.calls
    /\ reported = s.reported
    /\ crashed = s.crashed
    /\ engineAlive = s.engineAlive
    /\ sphere_position = s.sphere_position
    /\ lastReturn = s.lastReturn

---------------------------------------------------------------------------
(* The log and the heap *)

\* one entry of the log: the call, its argument (an object id, a body id or
\* a delta time), the world it is made on, whether the handle it is given is
\* live at that moment and, for a step, its allocator and collision steps
Event(op, arg, world, live) ==
    [op |-> op, arg |-> arg, world |-> world, live |-> live,
     allocator |-> NullPtr, steps |-> 0]

Log(s, op, arg) ==
    [s EXCEPT !.calls = Append(@, Event(op, arg, s._physics_system, TRUE))]

\* the process is gone: nothing after this statement of the handler runs
Crash(s, op) ==
    [s EXCEPT !.crashed = TRUE,
              !.calls = Append(@, Event(op, 0, s._physics_system, FALSE))]

\* Handlers are composed statement by statement; a statement after a crash
\* does not run.
Then(s, next) == IF s.crashed THEN s ELSE next

NewObject(kind) ==
    [kind |-> kind, alive |-> TRUE, refs |-> {}, bodies |-> <<>>,
     optimized |-> 0]

NextId(s) == Len(s.objs) + 1

\* new T
New(s, kind) ==
    [s EXCEPT !.objs = Append(@, NewObject(kind)),
              !.calls = Append(@, Event("new", Len(s.objs) + 1,
                                        s._physics_system, TRUE))]

\* delete p (delete of a null pointer does nothing)
Delete(s, id) ==
    IF id = NullPtr THEN s
    ELSE [s EXCEPT !.objs[id].alive = FALSE,
                   !.calls = Append(@, Event("delete", id,
                                             s._physics_system, s.objs[id].alive))]

\* member = std::make_unique<T>(): the new object is constructed, the
\* member takes it, and the object the member held before is destroyed
AssignUnique(s, member, kind) ==
    LET old == s[member]
        s1  == New(s, kind)
        s2  == [s1 EXCEPT ![member] = NextId(s)]
    IN  Delete(s2, old)

---------------------------------------------------------------------------
(* Layer classification (physics.h:33-142) *)

\* ObjectLayerPairFilterImpl::ShouldCollide; the default branch asserts
\* and returns false
ObjectLayerPairFilter_MovingOnlyWithMoving(inObject1, inObject2) ==
    CASE inObject1 = NON_MOVING -> inObject2 = MOVING
      [] inObject1 = MOVING -> inObject2 = MOVING
      [] OTHER -> FALSE

ObjectLayerPairFilter_ShouldCollide(inObject1, inObject2) ==
    CASE inObject1 = NON_MOVING -> inObject2 = MOVING
      [] inObject1 = MOVING -> TRUE
      [] OTHER -> FALSE

\* a switch with no default branch
NoDefaultBranch(inLayer) == FALSE

\* the switch of either filter is on its first argument alone: the default
\* branch, with JPH_ASSERT(false), is entered for any other value of it
DefaultBranch(inLayer) == inLayer \notin {NON_MOVING, MOVING}

\* the filter with NON_MOVING tested against the wrong broad-phase layer
ObjectVsBroadPhaseLayerFilter_NonMovingSwapped(inLayer1, inLayer2) ==
    CASE inLayer1 = NON_MOVING -> inLayer2 = BP_NON_MOVING
      [] inLayer1 = MOVING -> TRUE
      [] OTHER -> FALSE

\* ObjectVsBroadPhaseLayerFilterImpl::ShouldCollide
ObjectVsBroadPhaseLayerFilter_ShouldCollide(inLayer1, inLayer2) ==
    CASE inLayer1 = NON_MOVING -> inLayer2 = BP_MOVING
      [] inLayer1 = MOVING -> TRUE
      [] OTHER -> FALSE

\* the table with its two entries exchanged
mObjectToBroadPhaseSwapped ==
    [inLayer \in {NON_MOVING, MOVING} |->
        IF inLayer = NON_MOVING THEN BP_MOVING ELSE BP_NON_MOVING]

\* BPLayerInterfaceImpl(): the table mObjectToBroadPhase
mObjectToBroadPhase ==
    [inLayer \in {NON_MOVING, MOVING} |->
        IF inLayer = NON_MOVING THEN BP_NON_MOVING ELSE BP_MOVING]

\* JPH_ASSERT(inLayer < Layers::NUM_LAYERS) of GetBroadPhaseLayer
InTable(inLayer) == inLayer < NUM_LAYERS

\* What comes of a call of a layer function.  JPH_ASSERT exists only in a
\* build with JPH_ENABLE_ASSERTS; there a failed assertion prints and, the
\* callback returning true (physics.cpp:122-133), stops at a breakpoint, so
\* the function does not return (value is then meaningless).
\* path: the branch of the function that was taken.
NoLayerCall ==
    layerCall = [fn |-> "none", path |-> "none", outcome |-> "none",
                 value |-> FALSE]

ShouldCollideCall(fn, decision, default, asserts) ==
    IF default /\ asserts
    THEN [fn |-> fn, path |-> "default", outcome |-> "asserted",
          value |-> FALSE]
    ELSE [fn |-> fn, path |-> IF default THEN "default" ELSE "case",
          outcome |-> "returned", value |-> decision]

\* BPLayerInterfaceImpl::GetBroadPhaseLayer: without the assertion an
\* inLayer outside the table reads past the end of the array, which gives
\* whatever is there (garbage) or faults
GetBroadPhaseLayerCall(inLayer, asserts, ub, garbage) ==
    IF InTable(inLayer)
    THEN [fn |-> "GetBroadPhaseLayer", path |-> "table",
          outcome |-> "returned", value |-> mObjectToBroadPhase[inLayer]]
    ELSE IF asserts
    THEN [fn |-> "GetBroadPhaseLayer", path |-> "assert",
          outcome |-> "asserted", value |-> 0]
    ELSE IF ub = "crash"
    THEN [fn |-> "GetBroadPhaseLayer", path |-> "table",
          outcome |-> "crashed", value |-> 0]
    ELSE [fn |-> "GetBroadPhaseLayer", path |-> "table",
          outcome |-> "undefined", value |-> garbage]

---------------------------------------------------------------------------
(* The body registry of a PhysicsSystem.  A BodyID is the index of the     *)
(* body in the registry of its world; ids start again at 1 in a new world. *)

World(s) == s.objs[s._physics_system]

Bodies(s) == World(s).bodies

\* the handle names a body that was created in this world and not destroyed
IsLive(s, id) ==
    /\ id \in 1..Len(Bodies(s))
    /\ Bodies(s)[id].state # "destroyed"

NumLiveBodies(s) ==
    Cardinality({i \in 1..Len(Bodies(s)) : Bodies(s)[i].state # "destroyed"})

BodyEvent(s, op, id) ==
    [s EXCEPT !.calls = Append(@, Event(op, id, s._physics_system, IsLive(s, id)))]

SetBody(s, id, b) == [s EXCEPT !.objs[s._physics_system].bodies[id] = b]

\* BodyInterface::CreateBody: the new body is in the registry, not yet in
\* the broad phase
CreateBody(s, motion, layer, y, half) ==
    LET id == Len(Bodies(s)) + 1
        b  == [motion |-> motion, layer |-> layer, state |-> "created",
               y |-> y, vy |-> 0, half |-> half, active |-> FALSE,
               restitution |-> 0]
        s1 == [s EXCEPT !.objs[s._physics_system].bodies = Append(@, b)]
    IN  BodyEvent(s1, "CreateBody", id)

\* BodyInterface::AddBody(id, activation)
AddBody(s, id, activate) ==
    LET s1 == BodyEvent(s, "AddBody", id)
    IN  IF IsLive(s, id)
        THEN SetBody(s1, id, [Bodies(s)[id] EXCEPT !.state = "added",
                                                   !.active = activate])
        ELSE s1

\* BodyInterface::SetLinearVelocity / SetRestitution: a handle that is not
\* live is not locked and the call changes nothing
SetLinearVelocity(s, id, v) ==
    LET s1 == BodyEvent(s, "SetLinearVelocity", id)
    IN  IF IsLive(s, id)
        THEN SetBody(s1, id, [Bodies(s)[id] EXCEPT !.vy = v])
        ELSE s1

SetRestitution(s, id, r) ==
    LET s1 == BodyEvent(s, "SetRestitution", id)
    IN  IF IsLive(s, id)
        THEN SetBody(s1, id, [Bodies(s)[id] EXCEPT !.restitution = r])
        ELSE s1

\* BodyInterface::IsActive: false for a handle that cannot be locked
IsActive(s, id) ==
    /\ IsLive(s, id)
    /\ Bodies(s)[id].state = "added"
    /\ Bodies(s)[id].active

\* BodyInterface::RemoveBody: takes an added body out of the broad phase;
\* the code passes whatever handle it holds and checks nothing.  On a handle
\* that is not an added body the call is outside the library's contract.
RemoveBody(s, id, ub) ==
    LET s1 == BodyEvent(s, "RemoveBody", id)
    IN  IF IsLive(s, id) /\ Bodies(s)[id].state = "added"
        THEN SetBody(s1, id, [Bodies(s)[id] EXCEPT !.state = "removed",
                                                   !.active = FALSE])
        ELSE IF ub = "crash" THEN Crash(s1, "RemoveBody") ELSE s1

\* BodyInterface::DestroyBody: releases the handle's storage.  On a handle
\* that is not live (never created, or destroyed before) the library
\* indexes its body array with it: undefined behaviour.
DestroyBody(s, id, ub) ==
    LET s1 == BodyEvent(s, "DestroyBody", id)
    IN  IF IsLive(s, id)
        THEN SetBody(s1, id, [Bodies(s)[id] EXCEPT !.state = "destroyed",
                                                   !.active = FALSE])
        ELSE IF ub = "crash" THEN Crash(s1, "DestroyBody") ELSE s1

---------------------------------------------------------------------------
(* PhysicsSystem::Update, abstracted to one vertical coordinate.           *)

\* the tops of the static bodies in the broad phase that `b` may collide
\* with under the object layer pair filter
FloorTops(s, b) ==
    { Bodies(s)[i].y + Bodies(s)[i].half : i \in
        { j \in 1..Len(Bodies(s)) :
            /\ Bodies(s)[j].state = "added"
            /\ Bodies(s)[j].motion = "Static"
            /\ ObjectLayerPairFilter_ShouldCollide(b.layer, Bodies(s)[j].layer) } }

MaxOf(S) == CHOOSE x \in S : \A y \in S : y <= x

\* one body over one step of inDeltaTime with one collision step: gravity,
\* then the position; a body that reaches a floor is put on it and bounces
\* with its restitution, or is put to sleep when the rebound is slow
StepBody(s, b, dt) ==
    IF ~(b.state = "added" /\ b.motion = "Dynamic" /\ b.active) THEN b
    ELSE LET v1   == b.vy - Gravity * dt
             y1   == b.y + v1 * dt
             tops == FloorTops(s, b)
             rest == MaxOf(tops) + b.half
         IN  IF tops # {} /\ y1 <= rest /\ v1 <= 0
             THEN LET vb == ((0 - v1) * b.restitution) \div 10
                  IN  IF vb < SleepSpeed
                      THEN [b EXCEPT !.y = rest, !.vy = 0, !.active = FALSE]
                      ELSE [b EXCEPT !.y = rest, !.vy = vb]
             ELSE [b EXCEPT !.y = y1, !.vy = v1]

\* PhysicsSystem::Update(inDeltaTime, inCollisionSteps, inTempAllocator,
\* inJobSystem): blocking; every body has been stepped when it returns
PhysicsSystem_Update(s, dt, steps, allocator) ==
    LET s1 == [s EXCEPT !.calls = Append(@,
                    [Event("Update", dt, s._physics_system, TRUE)
                        EXCEPT !.allocator = allocator, !.steps = steps])]
    IN  [s1 EXCEPT !.objs[s._physics_system].bodies =
                        [i \in 1..Len(Bodies(s)) |-> StepBody(s, Bodies(s)[i], dt)]]

---------------------------------------------------------------------------
(* The listeners (physics.h:145-200).  A callback is given the state it    *)
(* runs in and its arguments; what comes of it is that state, the line it  *)
(* logs and what it returns.                                               *)

\* the worker threads of the job system; a worker is idle or inside a
\* callback it was given, with the bodies the callback is about
Workers == 1..NumWorkers

Idle == [callback |-> "none", body1 |-> InvalidBodyID, body2 |-> InvalidBodyID]

NoWorkers == [w \in Workers |-> Idle]

ListenerOutcome(s, line, result) ==
    [engine |-> s, line |-> line, result |-> result]

\* MyContactListener::OnContactValidate
OnContactValidate(s, inBody1, inBody2) ==
    ListenerOutcome(s, "Contact validate callback",
                    "AcceptAllContactsForThisBodyPair")

\* MyContactListener::OnContactAdded
OnContactAdded(s, inBody1, inBody2) ==
    ListenerOutcome(s, "A contact was added", "void")

\* MyContactListener::OnContactPersisted
OnContactPersisted(s, inBody1, inBody2) ==
    ListenerOutcome(s, "A contact was persisted", "void")

\* MyContactListener::OnContactRemoved
OnContactRemoved(s, inSubShapePair) ==
    ListenerOutcome(s, "A contact was removed", "void")

\* an activation callback that puts the body back to sleep
OnBodyActivatedDeactivatesBody(s, inBodyID) ==
    ListenerOutcome(
        [s EXCEPT !.objs[s._physics_system].bodies[inBodyID].active = FALSE],
        "A body got activated", "void")

\* MyBodyActivationListener::OnBodyActivated
OnBodyActivated(s, inBodyID) ==
    ListenerOutcome(s, "A body got activated", "void")

\* MyBodyActivationListener::OnBodyDeactivated
OnBodyDeactivated(s, inBodyID) ==
    ListenerOutcome(s, "A body went to sleep", "void")

---------------------------------------------------------------------------
(* PhysicsEngine (physics.cpp) *)

\* PhysicsEngine::PhysicsEngine(): the two listeners, in declaration order
Constructed ==
    LET s0 == [ _step |-> 0, _physics_system |-> NullPtr,
                _temp_allocator |-> NullPtr, _job_system |-> NullPtr,
                _body_activation_listener |-> NullPtr,
                _contact_listener |-> NullPtr,
                _broad_phase_layer_interface |-> NullPtr,
                _object_vs_broadphase_layer_filter |-> NullPtr,
                _object_vs_object_layer_filter |-> NullPtr,
                _sphere_id |-> InvalidBodyID, _floor_id |-> InvalidBodyID,
                sInstance |-> NullPtr, typesRegistered |-> FALSE,
                allocatorRegistered |-> FALSE, traceInstalled |-> FALSE,
                objs |-> <<>>, calls |-> <<>>, reported |-> {},
                crashed |-> FALSE, engineAlive |-> TRUE,
                sphere_position |-> kBallInitialPositionY,
                lastReturn |-> FALSE ]
        s1 == AssignUnique(s0, "_body_activation_listener",
                           "MyBodyActivationListener")
    IN  AssignUnique(s1, "_contact_listener", "MyContactListener")

\* the global setup, statements 148-165
RegisterDefaultAllocator(s) ==
    Log([s EXCEPT !.allocatorRegistered = TRUE], "RegisterDefaultAllocator", 0)

InstallCallbacks(s) ==
    Log([s EXCEPT !.traceInstalled = TRUE], "InstallCallbacks", 0)

\* Factory::sInstance = new Factory(): the pointer is overwritten, whatever
\* it held
NewFactory(s) ==
    [New(s, "Factory") EXCEPT !.sInstance = NextId(s)]

RegisterTypes(s) ==
    Log([s EXCEPT !.typesRegistered = TRUE], "RegisterTypes", s.sInstance)

\* the global setup with the types registered before the factory exists
GlobalSetupTypesFirst(s) ==
    NewFactory(RegisterTypes(InstallCallbacks(RegisterDefaultAllocator(s))))

GlobalSetup(s) ==
    RegisterTypes(NewFactory(InstallCallbacks(RegisterDefaultAllocator(s))))

\* _physics_system->Init(..., table, object-vs-broadphase filter,
\* object-vs-object filter): the system keeps references to the three
PhysicsSystem_Init(s) ==
    Log([s EXCEPT !.objs[s._physics_system].refs =
                @ \cup {s._broad_phase_layer_interface,
                        s._object_vs_broadphase_layer_filter,
                        s._object_vs_object_layer_filter}],
        "Init", s._physics_system)

SetListener(s, op, listener) ==
    Log([s EXCEPT !.objs[s._physics_system].refs = @ \cup {listener}],
        op, listener)

\* PhysicsEngine::initialise
Initialise(s) ==
    LET s0  == Log(s, "initialise", 0)
        s1  == GlobalSetup(s0)
        s2  == AssignUnique(s1, "_temp_allocator", "TempAllocatorImpl")
        s3  == AssignUnique(s2, "_job_system", "JobSystemThreadPool")
        s4  == AssignUnique(s3, "_broad_phase_layer_interface",
                            "BPLayerInterfaceImpl")
        s5  == AssignUnique(s4, "_object_vs_broadphase_layer_filter",
                            "ObjectVsBroadPhaseLayerFilterImpl")
        s6  == AssignUnique(s5, "_object_vs_object_layer_filter",
                            "ObjectLayerPairFilterImpl")
        s7  == AssignUnique(s6, "_physics_system", "PhysicsSystem")
        s8  == PhysicsSystem_Init(s7)
        s9  == SetListener(s8, "SetBodyActivationListener",
                           s8._body_activation_listener)
    IN  SetListener(s9, "SetContactListener", s9._contact_listener)

\* PhysicsEngine::create_floor.  ub: what the build does where the code
\* leaves the language's or the library's contract.
CreateFloor(s, half, posY, ub) ==
    LET s0 == Log(s, "create_floor", half)
        \* floor_shape_settings.Create(): an error result for a degenerate box
        shapeError == half <= 0
        \* floor_shape_result.Get() (268) comes before HasError() (273):
        \* on an error result it reads the other member of the union
        s1 == IF shapeError /\ ub = "crash" THEN Crash(s0, "ShapeResult.Get")
              ELSE IF shapeError
              THEN [s0 EXCEPT !.reported = @ \cup {"Error creating floor"}]
              ELSE s0
        \* _physics_system->GetBodyInterface() on a null pointer
        s2 == IF s1.crashed THEN s1
              ELSE IF s1._physics_system = NullPtr
              THEN Crash(s1, "null _physics_system")
              ELSE s1
        \* CreateBody returns nullptr when the registry is full; the code
        \* logs and goes on to floor->GetID()
        full == NumLiveBodies(s2) >= cMaxBodies
        s3 == IF s2.crashed THEN s2
              ELSE IF full
              THEN Crash([s2 EXCEPT !.reported = @ \cup
                            {"Error creating floor body interface"}],
                         "null floor")
              ELSE CreateBody(s2, "Static", NON_MOVING, posY, half)
        id == Len(Bodies(s3))
        s4 == IF s3.crashed THEN s3 ELSE AddBody(s3, id, FALSE)
    IN  IF s4.crashed THEN s4 ELSE [s4 EXCEPT !._floor_id = id]

\* PhysicsEngine::create_ball: CreateAndAddBody gives the invalid id when
\* the registry is full, and the two setters are called on it all the same
CreateBall(s, radius, posY, velY) ==
    LET s0 == Log(s, "create_ball", radius)
    IN  IF s0._physics_system = NullPtr THEN Crash(s0, "null _physics_system")
        ELSE LET full == NumLiveBodies(s0) >= cMaxBodies
                 s1 == IF full THEN s0
                       ELSE CreateBody(s0, "Dynamic", MOVING, posY, radius)
                 id == IF full THEN InvalidBodyID ELSE Len(Bodies(s1))
                 s2 == IF full THEN s1 ELSE AddBody(s1, id, TRUE)
                 s3 == [s2 EXCEPT !._sphere_id = id]
                 s4 == SetLinearVelocity(s3, id, velY)
             IN  SetRestitution(s4, id, RestitutionTenths)

\* start_simulation without the call of OptimizeBroadPhase
StartSimulationWithoutOptimize(s) ==
    LET s0 == Log(s, "start_simulation", 0)
    IN  IF s0._physics_system = NullPtr THEN Crash(s0, "null _physics_system")
        ELSE s0

\* PhysicsEngine::start_simulation
StartSimulation(s) ==
    LET s0 == Log(s, "start_simulation", 0)
    IN  IF s0._physics_system = NullPtr THEN Crash(s0, "null _physics_system")
        ELSE Log([s0 EXCEPT !.objs[s0._physics_system].optimized = @ + 1],
                 "OptimizeBroadPhase", s0._physics_system)

\* the step made with the allocator initialise created, not with one of
\* the call's own
PublishAndStepWithMemberAllocator(s, cDeltaTime) ==
    LET s2 == BodyEvent(s, "GetCenterOfMassPosition", s._sphere_id)
        s3 == BodyEvent(s2, "GetLinearVelocity", s2._sphere_id)
        s4 == [s3 EXCEPT !.sphere_position = Bodies(s3)[s3._sphere_id].y]
        s6 == PhysicsSystem_Update(s4, cDeltaTime, 1, s4._temp_allocator)
    IN  [s6 EXCEPT !.lastReturn = TRUE]

\* update, lines 354-387: the pose is read and published, then the world
\* is stepped with a temp allocator local to the call
PublishAndStep(s, cDeltaTime) ==
    LET s2 == BodyEvent(s, "GetCenterOfMassPosition", s._sphere_id)
        s3 == BodyEvent(s2, "GetLinearVelocity", s2._sphere_id)
        s4 == [s3 EXCEPT !.sphere_position = Bodies(s3)[s3._sphere_id].y]
        a  == NextId(s4)
        s5 == New(s4, "TempAllocatorImpl")
        s6 == PhysicsSystem_Update(s5, cDeltaTime, 1, a)
        s7 == Delete(s6, a)
    IN  [s7 EXCEPT !.lastReturn = TRUE]

\* update without its early return on an inactive sphere
UpdateWithoutSleepCheck(s, cDeltaTime) ==
    LET s0 == Log([s EXCEPT !._step = @ + 1], "update", cDeltaTime)
    IN  IF s0._physics_system = NullPtr THEN Crash(s0, "null _physics_system")
        ELSE PublishAndStep(BodyEvent(s0, "IsActive", s0._sphere_id),
                            cDeltaTime)

\* update returning true from its early return on an inactive sphere
UpdateReturnsTrueWhenInactive(s, cDeltaTime) ==
    LET s0 == Log([s EXCEPT !._step = @ + 1], "update", cDeltaTime)
    IN  IF s0._physics_system = NullPtr THEN Crash(s0, "null _physics_system")
        ELSE LET s1 == BodyEvent(s0, "IsActive", s0._sphere_id)
             IN  IF ~IsActive(s0, s0._sphere_id)
                 THEN [s1 EXCEPT !.lastReturn = TRUE]
                 ELSE PublishAndStep(s1, cDeltaTime)

\* PhysicsEngine::update(cDeltaTime, sphere_position).  ++_step is on a
\* JPH::uint: it wraps at 2^32, which no run of at most MaxFrames or MaxOps
\* calls reaches.
Update(s, cDeltaTime) ==
    LET s0 == Log([s EXCEPT !._step = @ + 1], "update", cDeltaTime)
    IN  IF s0._physics_system = NullPtr THEN Crash(s0, "null _physics_system")
        ELSE LET s1 == BodyEvent(s0, "IsActive", s0._sphere_id)
             IN  IF ~IsActive(s0, s0._sphere_id)
                 THEN [s1 EXCEPT !.lastReturn = FALSE]
                 ELSE PublishAndStep(s1, cDeltaTime)

\* JPH::UnregisterTypes(), which works on Factory::sInstance
UnregisterTypes(s, ub) ==
    LET s1 == [Log(s, "UnregisterTypes", s.sInstance)
                  EXCEPT !.calls[Len(s.calls) + 1].live = s.sInstance # NullPtr]
    IN  IF s.sInstance # NullPtr THEN [s1 EXCEPT !.typesRegistered = FALSE]
        ELSE IF ub = "crash" THEN Crash(s1, "UnregisterTypes") ELSE s1

\* delete Factory::sInstance; Factory::sInstance = nullptr
DeleteFactory(s) ==
    [Delete(s, s.sInstance) EXCEPT !.sInstance = NullPtr]

\* cleanup with the factory deleted before the types are unregistered
CleanupFactoryFirst(s, ub) ==
    LET s0 == Log(s, "cleanup", 0)
    IN  IF s0._physics_system = NullPtr THEN Crash(s0, "null _physics_system")
        ELSE LET s1 == RemoveBody(s0, s0._sphere_id, ub[1])
                 s2 == Then(s1, DestroyBody(s1, s1._sphere_id, ub[2]))
                 s3 == Then(s2, RemoveBody(s2, s2._floor_id, ub[3]))
                 s4 == Then(s3, DestroyBody(s3, s3._floor_id, ub[4]))
                 s5 == Then(s4, DeleteFactory(s4))
             IN  Then(s5, UnregisterTypes(s5, ub[5]))

\* PhysicsEngine::cleanup.  ub[k]: what the build does at the k-th call
\* that may leave the library's contract.
Cleanup(s, ub) ==
    LET s0 == Log(s, "cleanup", 0)
    IN  IF s0._physics_system = NullPtr THEN Crash(s0, "null _physics_system")
        ELSE LET s1 == RemoveBody(s0, s0._sphere_id, ub[1])
                 s2 == Then(s1, DestroyBody(s1, s1._sphere_id, ub[2]))
                 s3 == Then(s2, RemoveBody(s2, s2._floor_id, ub[3]))
                 s4 == Then(s3, DestroyBody(s3, s3._floor_id, ub[4]))
                 s5 == Then(s4, UnregisterTypes(s4, ub[5]))
             IN  Then(s5, DeleteFactory(s5))

\* ~PhysicsEngine(), implicit: the members are destroyed in the reverse of
\* their declaration order (physics.h:219-230); the two BodyIDs and _step
\* have nothing to destroy
DestroyMember(s, member) ==
    [Delete(s, s[member]) EXCEPT ![member] = NullPtr]

DestroyEngine(s) ==
    LET s0 == Log(s, "~PhysicsEngine", 0)
        s1 == DestroyMember(s0, "_object_vs_object_layer_filter")
        s2 == DestroyMember(s1, "_object_vs_broadphase_layer_filter")
        s3 == DestroyMember(s2, "_broad_phase_layer_interface")
        s4 == DestroyMember(s3, "_contact_listener")
        s5 == DestroyMember(s4, "_body_activation_listener")
        s6 == DestroyMember(s5, "_job_system")
        s7 == DestroyMember(s6, "_temp_allocator")
        s8 == DestroyMember(s7, "_physics_system")
    IN  [s8 EXCEPT !.engineAlive = FALSE]

---------------------------------------------------------------------------
(* game.cpp *)

RECURSIVE Game_UpdateLoopSetsMenu(_, _, _)
\* the loop with F9 switching the debug menu on instead of toggling it
Game_UpdateLoopSetsMenu(key_queue, debug_menu, taken) ==
    IF key_queue = <<>>
    THEN [key_queue |-> key_queue, debug_menu |-> debug_menu, taken |-> taken]
    ELSE LET key == Head(key_queue)
         IN  Game_UpdateLoopSetsMenu(Tail(key_queue),
                                     IF key = 0 THEN debug_menu
                                     ELSE IF key = KEY_F9 THEN TRUE
                                     ELSE debug_menu,
                                     Append(taken, key))

RECURSIVE Game_UpdateLoopBreaksOnNoKey(_, _, _)
\* the loop left, by a break instead of the continue, at the first key
\* code 0
Game_UpdateLoopBreaksOnNoKey(key_queue, debug_menu, taken) ==
    IF key_queue = <<>> \/ Head(key_queue) = 0
    THEN [key_queue |-> key_queue, debug_menu |-> debug_menu, taken |-> taken]
    ELSE LET key == Head(key_queue)
         IN  Game_UpdateLoopBreaksOnNoKey(Tail(key_queue),
                                          IF key = KEY_F9 THEN ~debug_menu
                                          ELSE debug_menu,
                                          Append(taken, key))

RECURSIVE Game_UpdateLoop(_, _, _)
\* the for loop of Game_Update (game.cpp:49-60): while the queue is not
\* empty the front key is read, F9 toggles the flag, and pop() (the loop's
\* increment, reached by the continue too) takes the key off.  taken: the
\* keys read so far, in the order they were read.
Game_UpdateLoop(key_queue, debug_menu, taken) ==
    IF key_queue = <<>>
    THEN [key_queue |-> key_queue, debug_menu |-> debug_menu, taken |-> taken]
    ELSE LET key == Head(key_queue)
         IN  Game_UpdateLoop(Tail(key_queue),
                             IF key = 0 THEN debug_menu
                             ELSE IF key = KEY_F9 THEN ~debug_menu
                             ELSE debug_menu,
                             Append(taken, key))

\* Game_Update(key_queue, debug_menu): the flag after the loop (the queue
\* is left empty)
Game_Update(key_queue, debug_menu) ==
    Game_UpdateLoop(key_queue, debug_menu, <<>>).debug_menu

---------------------------------------------------------------------------
(* main.cpp *)

\* the tick gate firing already when the interval has just elapsed
TickGateAtLeast(time) == time - tickTimer >= TickInterval

\* the tick gate (main.cpp:97-100)
TickGate(time) == time - tickTimer > TickInterval

Init ==
    /\ StartsAs(Constructed)
    /\ pc = "initialise"
    /\ now = 0
    /\ tickTimer = 0
    /\ keyQueue = <<>>
    /\ debugMenu = FALSE
    /\ frames = 0
    /\ gateFired = FALSE
    /\ ops = 0
    /\ selected_sphere_colour = 0
    /\ frame_times = <<>>
    /\ argLayer1 = NON_MOVING
    /\ argLayer2 = NON_MOVING
    /\ NoLayerCall
    /\ processed = <<>>
    /\ listenerLog = <<>>
    /\ workers = NoWorkers

InitAPI ==
    /\ StartsAs(Constructed)
    /\ pc = "api"
    /\ now = 0
    /\ tickTimer = 0
    /\ keyQueue = <<>>
    /\ debugMenu = FALSE
    /\ frames = 0
    /\ gateFired = FALSE
    /\ ops = 0
    /\ selected_sphere_colour = 0
    /\ frame_times = <<>>
    /\ argLayer1 = NON_MOVING
    /\ argLayer2 = NON_MOVING
    /\ NoLayerCall
    /\ processed = <<>>
    /\ listenerLog = <<>>
    /\ workers = NoWorkers

Running == ~crashed /\ engineAlive

\* main.cpp:75
MainInitialise ==
    /\ pc = "initialise" /\ Running
    /\ Commit(Initialise(Cur))
    /\ pc' = "create_floor"
    /\ UNCHANGED <<now, tickTimer, keyQueue, debugMenu, frames, gateFired, ops>>
    /\ UNCHANGED <<selected_sphere_colour, frame_times, layerVars, historyVars>>

\* main.cpp:78, with floor_dimensions and floor_position of lines 68-69
MainCreateFloor ==
    /\ pc = "create_floor" /\ Running
    /\ \E ub \in UBOutcomes :
          Commit(CreateFloor(Cur, kFloorHalfHeight, kFloorPositionY, ub))
    /\ pc' = "create_ball"
    /\ UNCHANGED <<now, tickTimer, keyQueue, debugMenu, frames, gateFired, ops>>
    /\ UNCHANGED <<selected_sphere_colour, frame_times, layerVars, historyVars>>

\* main.cpp:81, with sphere_position and the vertical part of sphere_velocity
MainCreateBall ==
    /\ pc = "create_ball" /\ Running
    /\ Commit(CreateBall(Cur, kBallRadius, sphere_position, 0))
    /\ pc' = "start_simulation"
    /\ UNCHANGED <<now, tickTimer, keyQueue, debugMenu, frames, gateFired, ops>>
    /\ UNCHANGED <<selected_sphere_colour, frame_times, layerVars, historyVars>>

\* main.cpp:86
MainStartSimulation ==
    /\ pc = "start_simulation" /\ Running
    /\ Commit(StartSimulation(Cur))
    /\ pc' = "loop"
    /\ UNCHANGED <<now, tickTimer, keyQueue, debugMenu, frames, gateFired, ops>>
    /\ UNCHANGED <<selected_sphere_colour, frame_times, layerVars, historyVars>>

\* the drawing part of an iteration (main.cpp:108-154), which runs
\* Game_DrawDebug and the ImGui window only while the debug menu is shown:
\* a radio button of the Dev Panel may have been clicked, and the window's
\* close button writes false through &debugMenu
DrawnColour(menu, click) ==
    IF menu /\ click # NoClick THEN click ELSE selected_sphere_colour

DrawnMenu(menu, closed) == menu /\ ~closed

\* the iteration with update called only while the debug menu is closed
FrameStepPausedByMenu(d, key, click, closed) ==
    LET time == now + d
        gate == TickGate(time)
        menu == IF gate THEN Game_Update(keyQueue, debugMenu) ELSE debugMenu
    IN  /\ now' = time
        /\ tickTimer' = IF gate THEN time ELSE tickTimer
        /\ keyQueue' = Append(IF gate THEN <<>> ELSE keyQueue, key)
        /\ gateFired' = gate
        /\ selected_sphere_colour' = DrawnColour(menu, click)
        /\ debugMenu' = DrawnMenu(menu, closed)
        /\ frame_times' = Append(frame_times, d)
        /\ Commit(IF menu THEN Cur ELSE Update(Cur, d))

\* one iteration of the loop (main.cpp:94-158): the frame took d time units,
\* GetKeyPressed() gives key, and the user may click in the debug windows
FrameStep(d, key, click, closed) ==
    LET time == now + d
        gate == TickGate(time)
        menu == IF gate THEN Game_Update(keyQueue, debugMenu) ELSE debugMenu
    IN  /\ now' = time
        /\ tickTimer' = IF gate THEN time ELSE tickTimer
        /\ keyQueue' = Append(IF gate THEN <<>> ELSE keyQueue, key)
        /\ gateFired' = gate
        /\ selected_sphere_colour' = DrawnColour(menu, click)
        /\ debugMenu' = DrawnMenu(menu, closed)
        /\ frame_times' = Append(frame_times, d)
        /\ Commit(Update(Cur, d))

Frame ==
    /\ pc = "loop" /\ Running
    /\ frames < MaxFrames
    /\ \E d \in FrameTimes, key \in Keys,
          click \in RadioClicks \cup {NoClick}, closed \in BOOLEAN :
          FrameStep(d, key, click, closed)
    /\ frames' = frames + 1
    /\ UNCHANGED <<pc, ops, layerVars, historyVars>>

\* the loop left straight to the return statement
ExitLoopToReturn ==
    /\ pc = "loop" /\ Running
    /\ pc' = "return"
    /\ UNCHANGED engineVars
    /\ UNCHANGED <<now, tickTimer, keyQueue, debugMenu, frames, gateFired, ops>>
    /\ UNCHANGED <<selected_sphere_colour, frame_times, layerVars, historyVars>>

\* WindowShouldClose() (main.cpp:94)
ExitLoop ==
    /\ pc = "loop" /\ Running
    /\ pc' = "cleanup"
    /\ UNCHANGED engineVars
    /\ UNCHANGED <<now, tickTimer, keyQueue, debugMenu, frames, gateFired, ops>>
    /\ UNCHANGED <<selected_sphere_colour, frame_times, layerVars, historyVars>>

\* main.cpp:160
MainCleanup ==
    /\ pc = "cleanup" /\ Running
    /\ \E ub \in [1..5 -> UBOutcomes] : Commit(Cleanup(Cur, ub))
    /\ pc' = "return"
    /\ UNCHANGED <<now, tickTimer, keyQueue, debugMenu, frames, gateFired, ops>>
    /\ UNCHANGED <<selected_sphere_colour, frame_times, layerVars, historyVars>>

\* main.cpp:162-163: return 0 destroys physics_engine
MainReturn ==
    /\ pc = "return" /\ Running
    /\ Commit(DestroyEngine(Cur))
    /\ pc' = "done"
    /\ UNCHANGED <<now, tickTimer, keyQueue, debugMenu, frames, gateFired, ops>>
    /\ UNCHANGED <<selected_sphere_colour, frame_times, layerVars, historyVars>>

Next ==
    \/ MainInitialise
    \/ MainCreateFloor
    \/ MainCreateBall
    \/ MainStartSimulation
    \/ Frame
    \/ ExitLoop
    \/ MainCleanup
    \/ MainReturn

Spec == Init /\ [][Next]_vars

\* main() is one thread: once the loop is left, the statements after it
\* run.  Control passes the cleanup statement and the return statement
\* (they are MainCleanup and MainReturn, the only steps that move pc so).
PassCleanup == pc = "cleanup" /\ pc' = "return"

PassReturn == pc = "return" /\ pc' = "done"

SpecFair == Spec /\ WF_pc(PassCleanup) /\ WF_pc(PassReturn)

---------------------------------------------------------------------------
(* The key handling of the loop (main.cpp:94-154) on its own: the engine   *)
(* is left out, and an iteration is taken in two parts, so that the state  *)
(* right after Game_Update is a state of the model.                        *)

InitKeys ==
    /\ StartsAs(Constructed)
    /\ pc = "tick"
    /\ now = 0
    /\ tickTimer = 0
    /\ keyQueue = <<>>
    /\ debugMenu = FALSE
    /\ frames = 0
    /\ gateFired = FALSE
    /\ ops = 0
    /\ selected_sphere_colour = 0
    /\ frame_times = <<>>
    /\ argLayer1 = NON_MOVING
    /\ argLayer2 = NON_MOVING
    /\ NoLayerCall
    /\ processed = <<>>
    /\ listenerLog = <<>>
    /\ workers = NoWorkers

\* main.cpp:96-104: the tick gate and, when it fires, Game_Update
KeysTick ==
    /\ pc = "tick"
    /\ frames < MaxFrames
    /\ \E d \in FrameTimes :
          LET time == now + d
              gate == TickGate(time)
              run  == Game_UpdateLoop(keyQueue, debugMenu, <<>>)
          IN  /\ now' = time
              /\ tickTimer' = IF gate THEN time ELSE tickTimer
              /\ gateFired' = gate
              /\ debugMenu' = IF gate THEN run.debug_menu ELSE debugMenu
              /\ keyQueue' = IF gate THEN run.key_queue ELSE keyQueue
              /\ processed' = IF gate THEN processed \o run.taken ELSE processed
    /\ pc' = "push"
    /\ UNCHANGED <<engineVars, frames, ops, selected_sphere_colour,
                   frame_times, layerVars, listenerLog, workers>>

\* main.cpp:106-154: the key of this frame is pushed, and the debug
\* window, when it is drawn, may be closed by its close button
KeysPush ==
    /\ pc = "push"
    /\ \E key \in Keys, closed \in BOOLEAN :
          /\ keyQueue' = Append(keyQueue, key)
          /\ debugMenu' = DrawnMenu(debugMenu, closed)
    /\ frames' = frames + 1
    /\ pc' = "tick"
    /\ UNCHANGED <<engineVars, now, tickTimer, gateFired, ops,
                   selected_sphere_colour, frame_times, layerVars,
                   historyVars>>

NextKeys ==
    \/ KeysTick
    \/ KeysPush

SpecKeys == InitKeys /\ [][NextKeys]_vars

---------------------------------------------------------------------------
\* the engine when main enters its loop (main.cpp:72-86)
EngineAtLoopEntry ==
    StartSimulation(
        CreateBall(
            CreateFloor(Initialise(Constructed), kFloorHalfHeight,
                        kFloorPositionY, "ignored"),
            kBallRadius, kBallInitialPositionY, 0))

---------------------------------------------------------------------------
(* The listener callbacks during a step of the world main has set up: the  *)
(* job system's worker threads are each given callbacks to run, in any     *)
(* order and while other workers are inside callbacks of their own.        *)

ContactCallbacks == {"OnContactValidate", "OnContactAdded",
                     "OnContactPersisted", "OnContactRemoved"}

ActivationCallbacks == {"OnBodyActivated", "OnBodyDeactivated"}

\* the callbacks started and not yet finished, and the finished ones
CallbacksStarted ==
    Len(listenerLog)
        + Cardinality({w \in Workers : workers[w].callback # "none"})

InitListeners ==
    /\ StartsAs(EngineAtLoopEntry)
    /\ pc = "step"
    /\ now = 0
    /\ tickTimer = 0
    /\ keyQueue = <<>>
    /\ debugMenu = FALSE
    /\ frames = 0
    /\ gateFired = FALSE
    /\ ops = 0
    /\ selected_sphere_colour = 0
    /\ frame_times = <<>>
    /\ argLayer1 = NON_MOVING
    /\ argLayer2 = NON_MOVING
    /\ NoLayerCall
    /\ processed = <<>>
    /\ listenerLog = <<>>
    /\ workers = NoWorkers

ListenerStep ==
    /\ pc = "step"
    /\ UNCHANGED <<mainVars, layerVars, processed>>

\* the step hands a callback to an idle worker: a contact callback for the
\* sphere and the floor, or an activation callback for the sphere (the
\* floor is static)
StepInvokesListener ==
    /\ ListenerStep
    /\ CallbacksStarted < MaxCallbacks
    /\ \E w \in Workers, c \in ContactCallbacks \cup ActivationCallbacks :
          /\ workers[w] = Idle
          /\ workers' = [workers EXCEPT ![w] =
                IF c \in ContactCallbacks
                THEN [callback |-> c, body1 |-> _floor_id, body2 |-> _sphere_id]
                ELSE [callback |-> c, body1 |-> _sphere_id,
                      body2 |-> InvalidBodyID]]
    /\ UNCHANGED <<engineVars, listenerLog>>

\* the worker w runs the body of the callback it is inside and returns
Ran(w, outcome) ==
    /\ Commit(outcome.engine)
    /\ listenerLog' = Append(listenerLog,
            [callback |-> workers[w].callback, line |-> outcome.line,
             result |-> outcome.result, worker |-> w,
             meanwhile |-> {workers[v].callback :
                               v \in {u \in Workers : u # w /\ workers[u] # Idle}}])
    /\ workers' = [workers EXCEPT ![w] = Idle]

RunOnContactValidate ==
    /\ ListenerStep
    /\ \E w \in Workers :
          /\ workers[w].callback = "OnContactValidate"
          /\ Ran(w, OnContactValidate(Cur, workers[w].body1, workers[w].body2))

RunOnContactAdded ==
    /\ ListenerStep
    /\ \E w \in Workers :
          /\ workers[w].callback = "OnContactAdded"
          /\ Ran(w, OnContactAdded(Cur, workers[w].body1, workers[w].body2))

RunOnContactPersisted ==
    /\ ListenerStep
    /\ \E w \in Workers :
          /\ workers[w].callback = "OnContactPersisted"
          /\ Ran(w, OnContactPersisted(Cur, workers[w].body1, workers[w].body2))

RunOnContactRemoved ==
    /\ ListenerStep
    /\ \E w \in Workers :
          /\ workers[w].callback = "OnContactRemoved"
          /\ Ran(w, OnContactRemoved(Cur, <<workers[w].body1, workers[w].body2>>))

RunOnBodyActivated ==
    /\ ListenerStep
    /\ \E w \in Workers :
          /\ workers[w].callback = "OnBodyActivated"
          /\ Ran(w, OnBodyActivated(Cur, workers[w].body1))

RunOnBodyDeactivated ==
    /\ ListenerStep
    /\ \E w \in Workers :
          /\ workers[w].callback = "OnBodyDeactivated"
          /\ Ran(w, OnBodyDeactivated(Cur, workers[w].body1))

NextListeners ==
    \/ StepInvokesListener
    \/ RunOnContactValidate
    \/ RunOnContactAdded
    \/ RunOnContactPersisted
    \/ RunOnContactRemoved
    \/ RunOnBodyActivated
    \/ RunOnBodyDeactivated

SpecListeners == InitListeners /\ [][NextListeners]_vars

---------------------------------------------------------------------------
(* Any caller of the public interface of one PhysicsEngine object *)

ApiStep ==
    /\ pc = "api" /\ Running
    /\ ops < MaxOps
    /\ ops' = ops + 1
    /\ UNCHANGED <<pc, now, tickTimer, keyQueue, debugMenu, frames, gateFired>>
    /\ UNCHANGED <<selected_sphere_colour, frame_times, layerVars, historyVars>>

ApiInitialise == ApiStep /\ Commit(Initialise(Cur))

ApiCreateFloor ==
    /\ ApiStep
    /\ \E half \in FloorHalfHeights, ub \in UBOutcomes :
          Commit(CreateFloor(Cur, half, kFloorPositionY, ub))

ApiCreateBall ==
    /\ ApiStep
    /\ \E radius \in BallRadii, posY \in BallHeights :
          Commit(CreateBall(Cur, radius, posY, 0))

ApiStartSimulation == ApiStep /\ Commit(StartSimulation(Cur))

ApiUpdate ==
    /\ ApiStep
    /\ \E dt \in DeltaTimes : Commit(Update(Cur, dt))

ApiCleanup ==
    /\ ApiStep
    /\ \E ub \in [1..5 -> UBOutcomes] : Commit(Cleanup(Cur, ub))

ApiDestroy == ApiStep /\ Commit(DestroyEngine(Cur))

NextAPI ==
    \/ ApiInitialise
    \/ ApiCreateFloor
    \/ ApiCreateBall
    \/ ApiStartSimulation
    \/ ApiUpdate
    \/ ApiCleanup
    \/ ApiDestroy

SpecAPI == InitAPI /\ [][NextAPI]_vars

---------------------------------------------------------------------------
(* A caller of create_floor, create_ball and update on an engine whose     *)
(* world is one body short of cMaxBodies                                   *)

RECURSIVE CreateFloors(_, _)
\* n calls of create_floor with the arguments of main.cpp:78
CreateFloors(s, n) ==
    IF n = 0 THEN s
    ELSE IF n = 1
    THEN CreateFloor(s, kFloorHalfHeight, kFloorPositionY, "ignored")
    ELSE LET first == CreateFloors(s, n \div 2)
         IN  Then(first, CreateFloors(first, n - (n \div 2)))

InitFull ==
    /\ StartsAs(CreateFloors(Initialise(Constructed), cMaxBodies - 1))
    /\ pc = "full"
    /\ now = 0
    /\ tickTimer = 0
    /\ keyQueue = <<>>
    /\ debugMenu = FALSE
    /\ frames = 0
    /\ gateFired = FALSE
    /\ ops = 0
    /\ selected_sphere_colour = 0
    /\ frame_times = <<>>
    /\ argLayer1 = NON_MOVING
    /\ argLayer2 = NON_MOVING
    /\ NoLayerCall
    /\ processed = <<>>
    /\ listenerLog = <<>>
    /\ workers = NoWorkers

FullStep ==
    /\ pc = "full" /\ Running
    /\ ops < MaxFullOps
    /\ ops' = ops + 1
    /\ UNCHANGED <<pc, now, tickTimer, keyQueue, debugMenu, frames, gateFired>>
    /\ UNCHANGED <<selected_sphere_colour, frame_times, layerVars, historyVars>>

FullCreateFloor ==
    /\ FullStep
    /\ \E half \in FloorHalfHeights, ub \in UBOutcomes :
          Commit(CreateFloor(Cur, half, kFloorPositionY, ub))

FullCreateBall ==
    /\ FullStep
    /\ \E radius \in BallRadii, posY \in BallHeights :
          Commit(CreateBall(Cur, radius, posY, 0))

FullUpdate ==
    /\ FullStep
    /\ \E dt \in DeltaTimes : Commit(Update(Cur, dt))

NextFull ==
    \/ FullCreateFloor
    \/ FullCreateBall
    \/ FullUpdate

SpecFull == InitFull /\ [][NextFull]_vars

---------------------------------------------------------------------------
(* The layer functions of physics.h, called on any layer values *)

InitLayers ==
    /\ StartsAs(Constructed)
    /\ pc = "layers"
    /\ now = 0
    /\ tickTimer = 0
    /\ keyQueue = <<>>
    /\ debugMenu = FALSE
    /\ frames = 0
    /\ gateFired = FALSE
    /\ ops = 0
    /\ selected_sphere_colour = 0
    /\ frame_times = <<>>
    /\ argLayer1 \in LayerValues
    /\ argLayer2 \in LayerValues
    /\ NoLayerCall
    /\ processed = <<>>
    /\ listenerLog = <<>>
    /\ workers = NoWorkers

LayerCallStep ==
    /\ pc = "layers"
    /\ layerCall.fn = "none"
    /\ UNCHANGED <<engineVars, mainVars, argLayer1, argLayer2, historyVars>>

CallObjectLayerPairFilter ==
    /\ LayerCallStep
    /\ \E asserts \in BOOLEAN :
          layerCall' = ShouldCollideCall("ObjectLayerPairFilter",
                          ObjectLayerPairFilter_ShouldCollide(argLayer1, argLayer2),
                          DefaultBranch(argLayer1), asserts)

CallObjectVsBroadPhaseLayerFilter ==
    /\ LayerCallStep
    /\ \E asserts \in BOOLEAN :
          layerCall' = ShouldCollideCall("ObjectVsBroadPhaseLayerFilter",
                          ObjectVsBroadPhaseLayerFilter_ShouldCollide(argLayer1,
                                                                      argLayer2),
                          DefaultBranch(argLayer1), asserts)

CallGetBroadPhaseLayer ==
    /\ LayerCallStep
    /\ \E asserts \in BOOLEAN, ub \in UBOutcomes, garbage \in LayerValues :
          layerCall' = GetBroadPhaseLayerCall(argLayer1, asserts, ub, garbage)

NextLayers ==
    \/ CallObjectLayerPairFilter
    \/ CallObjectVsBroadPhaseLayerFilter
    \/ CallGetBroadPhaseLayer

SpecLayers == InitLayers /\ [][NextLayers]_vars

---------------------------------------------------------------------------
(* Reading the log *)

Indices(op) == {i \in 1..Len(calls) : calls[i].op = op}

NumCalls(op) == Cardinality(Indices(op))

\* the simulation advances performed so far
NumSteps == NumCalls("Update")

\* the last update call performed a Step
SteppedInLastCall ==
    \E u \in Indices("update") :
        /\ \A k \in Indices("update") : k <= u
        /\ \E i \in Indices("Update") : i > u

\* the sphere's body, read from the registry directly
HasSphere ==
    /\ _physics_system # NullPtr
    /\ _sphere_id \in 1..Len(objs[_physics_system].bodies)

Sphere == objs[_physics_system].bodies[_sphere_id]

SphereAwake == HasSphere /\ Sphere.state = "added" /\ Sphere.active

\* a step of the model that is one update call
UpdateCalled == NumCalls("update")' = NumCalls("update") + 1

---------------------------------------------------------------------------
(* C1 *)

\* C1, as claimed: in the main loop a Step is performed in a frame if and
\* only if the tick gate fired in that frame.
C1_StepIffGateFired ==
    (pc = "loop" /\ frames > 0) => (SteppedInLastCall <=> gateFired)

\* C1, amended: every frame calls update once, whether or not the tick gate
\* fired, and that call performs exactly one Step when the sphere is active
\* on entry and none otherwise; the gate fires exactly when the time since
\* the last tick is greater than the tick interval, and then resets the tick
\* baseline (and drains the key queue), which is all it governs.
C1_StepEveryFrameWhileActive ==
    [][ frames' = frames + 1 =>
          /\ UpdateCalled
          /\ NumSteps' = NumSteps + (IF SphereAwake THEN 1 ELSE 0)
          /\ gateFired' <=> (now' - tickTimer > TickInterval)
          /\ tickTimer' = (IF gateFired' THEN now' ELSE tickTimer)
          /\ Len(keyQueue') = (IF gateFired' THEN 1 ELSE Len(keyQueue) + 1)
      ]_vars

\* C1: a frame whose gate did not fire performed a Step all the same
C1_Witness ==
    pc = "loop" /\ frames > 1 /\ ~gateFired /\ SteppedInLastCall

---------------------------------------------------------------------------
(* C2 *)

\* C2, as claimed: an update call made while the sphere is inactive still
\* invokes PhysicsSystem::Update, and the published pose stays.
C2_StepsWhileInactive ==
    [][ (pc = "loop" /\ UpdateCalled /\ HasSphere /\ ~SphereAwake) =>
          /\ NumSteps' = NumSteps + 1
          /\ sphere_position' = sphere_position
      ]_vars

\* C2, amended: an update call made while the sphere is inactive returns
\* false without invoking PhysicsSystem::Update; it still counts in _step,
\* the sphere stays inactive and the last published pose stays published.
C2_NoStepWhileInactive ==
    [][ (pc = "loop" /\ UpdateCalled /\ HasSphere /\ ~SphereAwake) =>
          /\ NumSteps' = NumSteps
          /\ ~lastReturn'
          /\ _step' = _step + 1
          /\ ~SphereAwake'
          /\ sphere_position' = sphere_position
      ]_vars

\* C2: the sphere is asleep and an update call has been made on it since
C2_Witness ==
    /\ pc = "loop" /\ HasSphere /\ ~SphereAwake
    /\ ~lastReturn /\ _step > NumSteps

---------------------------------------------------------------------------
(* C3 *)

\* C3: when an update call that performed a Step has returned, the
\* published sphere_position is the sphere's position after that Step.
C3_PublishedIsPostStep ==
    (pc = "loop" /\ frames > 0 /\ lastReturn /\ HasSphere) =>
        sphere_position = Sphere.y

---------------------------------------------------------------------------
(* C4 *)

\* C4: the step counter _step equals the number of simulation advances
\* (PhysicsSystem::Update calls) performed.
C4_StepCountsAdvances == _step = NumSteps

---------------------------------------------------------------------------
(* Object lifetimes in the log *)

IsNew(i, kind) == calls[i].op = "new" /\ objs[calls[i].arg].kind = kind

IsDelete(i, kind) == calls[i].op = "delete" /\ objs[calls[i].arg].kind = kind

DeletedBefore(id, i) ==
    \E j \in 1..(i - 1) : calls[j].op = "delete" /\ calls[j].arg = id

CreatedBefore(id, i) ==
    \E j \in 1..(i - 1) : calls[j].op = "new" /\ calls[j].arg = id

Worlds == {w \in 1..Len(objs) : objs[w].kind = "PhysicsSystem"}

HandlerOps == {"initialise", "create_floor", "create_ball",
               "start_simulation", "update", "cleanup", "~PhysicsEngine"}

\* the handler the log entry i belongs to: the last handler entry up to i
HandlerOf(i) ==
    CHOOSE h \in 1..i :
        /\ calls[h].op \in HandlerOps
        /\ \A k \in (h + 1)..i : calls[k].op \notin HandlerOps

LastHandlerIs(op) ==
    /\ calls # <<>>
    /\ \E h \in 1..Len(calls) : calls[h].op \in HandlerOps
    /\ calls[HandlerOf(Len(calls))].op = op

BodyOps == {"AddBody", "SetLinearVelocity", "SetRestitution", "IsActive",
            "GetCenterOfMassPosition", "GetLinearVelocity", "RemoveBody",
            "DestroyBody"}

\* the calls of op on body id of world w
BodyCalls(op, w, id) ==
    {i \in 1..Len(calls) :
        calls[i].op = op /\ calls[i].world = w /\ calls[i].arg = id}

---------------------------------------------------------------------------
(* C5 *)

\* C5: wherever a PhysicsSystem is created or Init is called on it, the
\* initialise call it belongs to has first, in this order, registered the
\* default allocator, installed the trace/assert callbacks, created and
\* installed the Factory singleton and registered the types.
C5_GlobalSetupBeforeWorld ==
    \A j \in 1..Len(calls) :
        (IsNew(j, "PhysicsSystem") \/ calls[j].op = "Init") =>
            LET i == HandlerOf(j)
            IN  /\ calls[i].op = "initialise"
                /\ i + 4 < j
                /\ calls[i + 1].op = "RegisterDefaultAllocator"
                /\ calls[i + 2].op = "InstallCallbacks"
                /\ IsNew(i + 3, "Factory")
                /\ calls[i + 4].op = "RegisterTypes"
                /\ calls[i + 4].arg = calls[i + 3].arg

\* C5: initialise has run, also a second time, and a world is configured
C5_Witness ==
    /\ NumCalls("Init") = 2
    /\ _physics_system # NullPtr
    /\ objs[_physics_system].refs # {}

---------------------------------------------------------------------------
(* C6 *)

\* C6: when cleanup has returned in the program, the types were
\* unregistered before the Factory was deleted, every body of the world had
\* been removed and then destroyed before either, and the Factory singleton
\* pointer is null.
C6_CleanupOrder ==
    (pc \in {"return", "done"} /\ ~crashed) =>
        \E c \in Indices("cleanup"), u \in Indices("UnregisterTypes"),
           d \in {i \in 1..Len(calls) : IsDelete(i, "Factory")} :
            /\ c < u /\ u < d
            /\ calls[u].live
            /\ calls[d].arg = calls[u].arg
            /\ \A b \in 1..Len(objs[calls[c].world].bodies) :
                  /\ objs[calls[c].world].bodies[b].state = "destroyed"
                  /\ \E r \in BodyCalls("RemoveBody", calls[c].world, b),
                        x \in BodyCalls("DestroyBody", calls[c].world, b) :
                        c < r /\ r < x /\ x < u
            /\ sInstance = NullPtr
            /\ \A f \in 1..Len(objs) : objs[f].kind = "Factory" => ~objs[f].alive

\* C6: cleanup has returned after the simulation ran, floor and sphere gone
C6_Witness ==
    /\ pc = "return" /\ ~crashed /\ NumSteps > 0
    /\ Len(objs[_physics_system].bodies) = 2
    /\ sInstance = NullPtr

---------------------------------------------------------------------------
(* C7 *)

\* C7: at the moment the Factory is deleted no PhysicsSystem created before
\* it still exists, so none is destroyed outside the factory's lifetime.
C7_NoWorldOutsideFactoryWindow ==
    \A d \in 1..Len(calls) :
        IsDelete(d, "Factory") =>
            \A w \in Worlds : CreatedBefore(w, d) => DeletedBefore(w, d)

---------------------------------------------------------------------------
(* C8 *)

\* C8: the layer table, the two filters and the two listeners a
\* PhysicsSystem was configured with are never destroyed before it.
C8_DependenciesOutliveWorld ==
    \A i \in 1..Len(calls) :
        calls[i].op = "delete" =>
            \A w \in Worlds :
                calls[i].arg \in objs[w].refs => DeletedBefore(w, i)

---------------------------------------------------------------------------
(* C9 *)

\* C9: when cleanup has returned, every body that was added to the world
\* has had RemoveBody and then DestroyBody called on it exactly once, and
\* none is left registered.
C9_EveryAddedBodyTornDown ==
    (LastHandlerIs("cleanup") /\ ~crashed) =>
        \A b \in 1..Len(objs[_physics_system].bodies) :
            /\ objs[_physics_system].bodies[b].state = "destroyed"
            /\ Cardinality(BodyCalls("RemoveBody", _physics_system, b)) = 1
            /\ Cardinality(BodyCalls("DestroyBody", _physics_system, b)) = 1
            /\ \A r \in BodyCalls("RemoveBody", _physics_system, b),
                  x \in BodyCalls("DestroyBody", _physics_system, b) : r < x

---------------------------------------------------------------------------
(* C10 *)

\* C10: a body operation on a handle that is not live is reported as
\* InvalidHandle.
C10_InvalidHandleReported ==
    \A i \in 1..Len(calls) :
        (calls[i].op \in BodyOps /\ ~calls[i].live) =>
            "InvalidHandle" \in reported

---------------------------------------------------------------------------
(* C11 *)

\* a log entry made by the library or the heap, not the entry of a handler
IsLibraryEntry(i) == i \in 1..Len(calls) /\ calls[i].op \notin HandlerOps

\* the handler entry h is made outside Unconfigured -> Configured ->
\* Running -> ShutDown: no initialise before it, or a cleanup before it
OutOfSequence(h) ==
    \/ /\ calls[h].op \in {"create_floor", "create_ball", "start_simulation",
                          "update", "cleanup"}
       /\ \A i \in 1..(h - 1) : calls[i].op # "initialise"
    \/ /\ calls[h].op \in HandlerOps \ {"~PhysicsEngine"}
       /\ \E c \in 1..(h - 1) : calls[c].op = "cleanup"

\* C11: a PhysicsEngine operation invoked outside the sequence (before
\* initialise, or after cleanup) is rejected as InvalidOrdering and makes no
\* call on the world.
C11_OutOfSequenceRejected ==
    \A h \in 1..Len(calls) :
        OutOfSequence(h) =>
            /\ "InvalidOrdering" \in reported
            /\ ~IsLibraryEntry(h + 1)

---------------------------------------------------------------------------
(* C12 *)

\* a step of the model that is one create_floor or create_ball call
CreateCalled ==
    /\ Len(calls') > Len(calls)
    /\ calls'[Len(calls) + 1].op \in {"create_floor", "create_ball"}

\* the error lines that say that the registry is full
CapacityReports == {"CapacityExceeded", "Error creating floor body interface"}

\* C12: once the live bodies number cMaxBodies, the next create_floor or
\* create_ball call reports CapacityExceeded and is atomic: the registry
\* is as it was, and no call is made on a null body or an invalid handle.
C12_CapacityExceededAtomic ==
    [][ (_physics_system # NullPtr /\ NumLiveBodies(Cur) = cMaxBodies
            /\ CreateCalled) =>
          /\ reported' \cap CapacityReports # {}
          /\ objs'[_physics_system].bodies = objs[_physics_system].bodies
          /\ ~crashed'
          /\ \A i \in (Len(calls) + 1)..Len(calls') : calls'[i].live
      ]_vars

---------------------------------------------------------------------------
(* C13 *)

\* the error lines that say that a shape could not be made
ShapeReports == {"ShapeConstructionError", "Error creating floor"}

\* C13: a create_floor or create_ball call made on a configured world with
\* a non-positive extent or radius reports the shape error and creates and
\* adds no body.
C13_InvalidShapeCreatesNoBody ==
    \A h \in 1..Len(calls) :
        (/\ calls[h].op \in {"create_floor", "create_ball"}
         /\ calls[h].world # NullPtr
         /\ calls[h].arg <= 0) =>
            /\ reported \cap ShapeReports # {}
            /\ \A i \in (h + 1)..Len(calls) :
                  (calls[i].op \in {"CreateBody", "AddBody"}) => HandlerOf(i) # h

---------------------------------------------------------------------------
(* C14 *)

BeforeLoop == pc \in {"initialise", "create_floor", "create_ball",
                      "start_simulation"}

\* C14: in the program OptimizeBroadPhase is called exactly once, after
\* the floor and the ball have been added to the world and before the
\* first update call and the first Step; until start_simulation has run
\* there is neither.
C14_OptimizedOnceBeforeFirstStep ==
    /\ BeforeLoop =>
          /\ NumCalls("OptimizeBroadPhase") = 0
          /\ NumCalls("update") = 0 /\ NumSteps = 0
    /\ ~BeforeLoop =>
          \E o \in Indices("OptimizeBroadPhase") :
              /\ Indices("OptimizeBroadPhase") = {o}
              /\ _floor_id # _sphere_id
              /\ \E f \in BodyCalls("AddBody", calls[o].world, _floor_id) :
                    f < o /\ calls[f].live
              /\ \E b \in BodyCalls("AddBody", calls[o].world, _sphere_id) :
                    b < o /\ calls[b].live
              /\ \A u \in Indices("update") \cup Indices("Update") :
                    o < u /\ calls[u].world = calls[o].world

\* C14: the simulation has been stepped after the one optimisation
C14_Witness ==
    /\ pc = "loop" /\ NumSteps > 1
    /\ NumCalls("OptimizeBroadPhase") = 1
    /\ objs[_physics_system].optimized = 1

---------------------------------------------------------------------------
(* C15 *)

\* cleanup has run if and only if the loop has been left and the statement
\* after it passed; it ran once, after every update call, and before the
\* engine is destroyed by the return
CleanupRanOnceAfterLoop ==
    /\ pc \in {"return", "done"} <=> NumCalls("cleanup") > 0
    /\ pc \in {"return", "done"} =>
          \E c \in Indices("cleanup") :
              /\ Indices("cleanup") = {c}
              /\ \A u \in Indices("update") : u < c
              /\ \A x \in Indices("~PhysicsEngine") : c < x
    /\ pc = "done" <=> NumCalls("~PhysicsEngine") = 1

\* C15: whenever the main loop ends, PhysicsEngine::cleanup is executed,
\* exactly once, after the last update call and before main returns, and
\* main then returns.
C15_CleanupOnceOnExit ==
    /\ []CleanupRanOnceAfterLoop
    /\ (pc = "cleanup") ~> (pc = "return" /\ NumCalls("cleanup") = 1)
    /\ (pc = "return") ~> (pc = "done")

\* C15: the loop ran, was left, cleanup ran and main has returned
C15_Witness ==
    /\ pc = "done" /\ NumCalls("update") > 0
    /\ NumCalls("cleanup") = 1 /\ ~engineAlive

---------------------------------------------------------------------------
(* C16 *)

ObjectLayers == {NON_MOVING, MOVING}

BroadPhaseLayers == {BP_NON_MOVING, BP_MOVING}

\* the policy, pair by pair: non-moving against non-moving never collide,
\* non-moving against moving collide, moving against anything collide
PolicyOnObjectLayers ==
    (<<NON_MOVING, NON_MOVING>> :> FALSE) @@ (<<NON_MOVING, MOVING>> :> TRUE)
    @@ (<<MOVING, NON_MOVING>> :> TRUE) @@ (<<MOVING, MOVING>> :> TRUE)

PolicyOnBroadPhaseLayers ==
    (<<NON_MOVING, BP_NON_MOVING>> :> FALSE) @@ (<<NON_MOVING, BP_MOVING>> :> TRUE)
    @@ (<<MOVING, BP_NON_MOVING>> :> TRUE) @@ (<<MOVING, BP_MOVING>> :> TRUE)

\* C16: on the layers NON_MOVING and MOVING each of the two filters
\* returns what the policy says, and for a first argument MOVING each
\* returns true whatever the second argument is.
C16_FiltersImplementPolicy ==
    /\ (layerCall.fn = "ObjectLayerPairFilter" /\ argLayer1 \in ObjectLayers
            /\ argLayer2 \in ObjectLayers) =>
          /\ layerCall.outcome = "returned"
          /\ layerCall.value = PolicyOnObjectLayers[<<argLayer1, argLayer2>>]
    /\ (layerCall.fn = "ObjectVsBroadPhaseLayerFilter"
            /\ argLayer1 \in ObjectLayers /\ argLayer2 \in BroadPhaseLayers) =>
          /\ layerCall.outcome = "returned"
          /\ layerCall.value = PolicyOnBroadPhaseLayers[<<argLayer1, argLayer2>>]
    /\ (layerCall.fn \in {"ObjectLayerPairFilter",
                          "ObjectVsBroadPhaseLayerFilter"}
            /\ argLayer1 = MOVING) =>
          layerCall.outcome = "returned" /\ layerCall.value = TRUE

\* C16: the broad-phase filter was asked about a non-moving object against
\* the moving broad-phase layer, and said yes
C16_Witness ==
    /\ layerCall.fn = "ObjectVsBroadPhaseLayerFilter"
    /\ argLayer1 = NON_MOVING /\ argLayer2 = BP_MOVING
    /\ layerCall.outcome = "returned" /\ layerCall.value = TRUE

---------------------------------------------------------------------------
(* C17 *)

\* C17: on the object layers NON_MOVING and MOVING the pair filter gives
\* the same answer with its arguments exchanged.
C17_PairFilterSymmetric ==
    (layerCall.fn = "ObjectLayerPairFilter" /\ argLayer1 \in ObjectLayers
        /\ argLayer2 \in ObjectLayers) =>
        /\ layerCall.outcome = "returned"
        /\ layerCall.value =
              ObjectLayerPairFilter_ShouldCollide(argLayer2, argLayer1)

\* C17: the pair filter was asked (MOVING, NON_MOVING), the pair decided by
\* the MOVING case alone, and said yes as it does for (NON_MOVING, MOVING)
C17_Witness ==
    /\ layerCall.fn = "ObjectLayerPairFilter"
    /\ argLayer1 = MOVING /\ argLayer2 = NON_MOVING
    /\ layerCall.value = TRUE
    /\ ObjectLayerPairFilter_ShouldCollide(NON_MOVING, MOVING)

---------------------------------------------------------------------------
(* C18 *)

FilterCalled ==
    layerCall.fn \in {"ObjectLayerPairFilter", "ObjectVsBroadPhaseLayerFilter"}

\* the second argument is a layer of the namespace the filter takes it from
SecondRecognised ==
    IF layerCall.fn = "ObjectLayerPairFilter" THEN argLayer2 \in ObjectLayers
    ELSE argLayer2 \in BroadPhaseLayers

\* C18, as claimed: each filter is total, and a call in which either
\* argument is not a recognised layer goes through the default (assertion)
\* branch, never through a case that returns an ordinary decision.
C18_UnrecognisedTakesAssertionPath ==
    FilterCalled =>
        /\ layerCall.outcome \in {"returned", "asserted"}
        /\ (argLayer1 \notin ObjectLayers \/ ~SecondRecognised) =>
              layerCall.path = "default"

\* C18, amended: each filter is total and switches on its first argument
\* alone.  A first argument that is not a recognised layer takes the
\* default branch, which stops at the assertion in a build with assertions
\* and returns false in one without; nothing else stops a call.  A second
\* argument that is not a recognised layer is not detected: with a first
\* argument MOVING the answer is true, with NON_MOVING it is false.
C18_TotalAssertsOnFirstArgumentOnly ==
    FilterCalled =>
        /\ layerCall.outcome \in {"returned", "asserted"}
        /\ layerCall.outcome = "returned" => layerCall.value \in BOOLEAN
        /\ layerCall.path = "default" <=> argLayer1 \notin ObjectLayers
        /\ layerCall.outcome = "asserted" => layerCall.path = "default"
        /\ (layerCall.path = "default" /\ layerCall.outcome = "returned") =>
              layerCall.value = FALSE
        /\ (argLayer1 \in ObjectLayers /\ ~SecondRecognised) =>
              /\ layerCall.outcome = "returned"
              /\ layerCall.value = (argLayer1 = MOVING)

\* C18: a filter was given MOVING and a value that is no layer, and
\* returned true without an assertion
C18_Witness ==
    /\ FilterCalled
    /\ argLayer1 = MOVING /\ ~SecondRecognised
    /\ layerCall.outcome = "returned" /\ layerCall.value = TRUE

---------------------------------------------------------------------------
(* C19 *)

RECURSIVE UpdatedThrough(_, _)
\* the engine s after one update call per frame time, and nothing else
UpdatedThrough(s, times) ==
    IF times = <<>> THEN s
    ELSE UpdatedThrough(Update(s, Head(times)), Tail(times))

\* C19: whatever keys were pressed, whether the debug menu is or was open
\* and whichever colour was selected, the engine in the loop (its log of
\* Step calls and their delta times, the published sphere position, the
\* step counter, the world) is the one that the frame times alone give.
C19_SimulationIgnoresUI ==
    pc = "loop" =>
        /\ Len(frame_times) = frames
        /\ Cur = UpdatedThrough(EngineAtLoopEntry, frame_times)

\* C19: the simulation has been stepped while the debug menu was opened
\* with F9 and another colour was selected in it
C19_Witness ==
    /\ pc = "loop" /\ NumSteps > 2
    /\ debugMenu /\ selected_sphere_colour # 0

---------------------------------------------------------------------------
(* C21 *)

\* the number of F9 key codes in a sequence of key codes
F9Count(keys) == Cardinality({i \in 1..Len(keys) : keys[i] = KEY_F9})

\* a step of the key handling in which Game_Update ran
GameUpdateRan == pc = "tick" /\ pc' = "push" /\ gateFired'

\* C21: a run of Game_Update flips the debug-menu flag once for each F9 it
\* takes off the queue and not for any other key code (0 included): the
\* flag is changed exactly when the number of F9 taken is odd, so one F9
\* opens the menu, a second closes it and an even number leaves it as it
\* was; when Game_Update does not run the flag is unchanged.
C21_F9TogglesDebugMenu ==
    [][ (pc = "tick" /\ pc' = "push") =>
          /\ GameUpdateRan =>
                /\ processed' = processed \o keyQueue
                /\ debugMenu' = (debugMenu # (F9Count(keyQueue) % 2 = 1))
          /\ ~gateFired' => debugMenu' = debugMenu
      ]_vars

\* C21: Game_Update has just taken two F9 off the queue at once, and with
\* them another key, and the menu, opened by an earlier F9, is still open
C21_Witness ==
    /\ pc = "push" /\ gateFired /\ debugMenu
    /\ F9Count(processed) = 3
    /\ Len(processed) > 3
    /\ processed[Len(processed)] = KEY_F9
    /\ processed[Len(processed) - 1] = KEY_F9

---------------------------------------------------------------------------
(* C29 *)

\* C29: the keys are consumed once each and in the order they were pushed.
\* When the tick gate fires, Game_Update takes the whole queue, front
\* first, and leaves it empty; when it does not fire, nothing is taken and
\* the queue is kept.  The push that follows puts the key of the frame at
\* the back of the queue and no key is processed by it, so a key is
\* processed in a later frame than the one that pushed it.
C29_KeysConsumedOnceInOrder ==
    [][ /\ (pc = "tick" /\ pc' = "push") =>
              IF gateFired'
              THEN processed' = processed \o keyQueue /\ keyQueue' = <<>>
              ELSE processed' = processed /\ keyQueue' = keyQueue
        /\ (pc = "push" /\ pc' = "tick") =>
              /\ processed' = processed
              /\ Len(keyQueue') = Len(keyQueue) + 1
              /\ SubSeq(keyQueue', 1, Len(keyQueue)) = keyQueue
      ]_vars

\* C29: Game_Update has just emptied a queue of several keys, one of them
\* the key code 0, and every key pushed so far has been processed, in the
\* order of the pushes
C29_Witness ==
    /\ pc = "push" /\ gateFired /\ keyQueue = <<>>
    /\ frames = 3
    /\ processed = <<65, 0, KEY_F9>>

---------------------------------------------------------------------------
(* C22 *)

\* the update calls made with a negative delta time on a configured world
NegativeUpdates ==
    {h \in Indices("update") : calls[h].arg < 0 /\ calls[h].world # NullPtr}

\* C22: an update call with a negative delta time is fatal and advances
\* nothing: no Step is made with a negative delta time or with fewer than
\* one collision step, the process has ended once such a call was made,
\* and _step does not count it.
C22_NegativeDeltaTimeRejected ==
    /\ \A i \in Indices("Update") : calls[i].arg >= 0 /\ calls[i].steps >= 1
    /\ NegativeUpdates # {} => crashed
    /\ _step <= NumCalls("update") - Cardinality(NegativeUpdates)

---------------------------------------------------------------------------
(* C23 *)

\* the Factory objects that were created and not deleted
LiveFactories ==
    {i \in 1..Len(objs) : objs[i].kind = "Factory" /\ objs[i].alive}

\* C23: at any moment at most one Factory is alive, and it is the one
\* Factory::sInstance points to; once a cleanup call has returned, every
\* Factory that was created has been deleted.
C23_OneFactoryNoneLeaked ==
    /\ Cardinality(LiveFactories) <= 1
    /\ LiveFactories \subseteq {sInstance}
    /\ (LastHandlerIs("cleanup") /\ ~crashed) => LiveFactories = {}

---------------------------------------------------------------------------
(* C24 *)

\* a step of the model in which a worker ran a listener callback
ListenerRan ==
    /\ pc = "step"
    /\ \E w \in Workers : workers[w] # Idle /\ workers'[w] = Idle

---------------------------------------------------------------------------
(* C25 *)

\* the log entries at which an update call made a TempAllocatorImpl
AllocatorsOf(op) ==
    {n \in 1..Len(calls) :
        IsNew(n, "TempAllocatorImpl") /\ calls[HandlerOf(n)].op = op}

---------------------------------------------------------------------------
(* C28 *)

\* C28: an update call on a configured world returns true exactly when the
\* sphere is active on entry, and then it makes exactly one Step; it
\* returns false exactly when the sphere is not active on entry, and then
\* it makes no Step and the published sphere_position is left as it was.
C28_ReturnTellsWhetherStepped ==
    [][ (UpdateCalled /\ _physics_system # NullPtr /\ ~crashed') =>
          IF SphereAwake
          THEN lastReturn' /\ NumSteps' = NumSteps + 1
          ELSE /\ ~lastReturn'
               /\ NumSteps' = NumSteps
               /\ sphere_position' = sphere_position
      ]_vars

\* C28: update has returned true after a Step and then, on the sphere no
\* longer active, false without one
C28_Witness ==
    /\ pc = "api" /\ ~crashed
    /\ LastHandlerIs("update")
    /\ HasSphere /\ ~SphereAwake /\ ~lastReturn
    /\ NumSteps > 0
    /\ NumCalls("update") > NumSteps
    /\ sphere_position # kBallInitialPositionY

---------------------------------------------------------------------------
(* C26 *)

\* the broad-phase layer GetBroadPhaseLayer returns for an object layer of
\* the table, with or without assertions
BroadPhaseLayerOf(inLayer) ==
    GetBroadPhaseLayerCall(inLayer, FALSE, "crash", 0).value

\* C26: the two filters agree through the table.  The pair filter asked
\* about object layers (a, b) answers what the broad-phase filter answers
\* for (a, GetBroadPhaseLayer(b)), and the broad-phase filter asked about
\* (a, GetBroadPhaseLayer(b)) answers what the pair filter answers for
\* (a, b).
C26_FiltersAgreeThroughTable ==
    /\ (layerCall.fn = "ObjectLayerPairFilter" /\ argLayer1 \in ObjectLayers
            /\ argLayer2 \in ObjectLayers) =>
          /\ layerCall.outcome = "returned"
          /\ layerCall.value =
                ObjectVsBroadPhaseLayerFilter_ShouldCollide(
                    argLayer1, BroadPhaseLayerOf(argLayer2))
    /\ (layerCall.fn = "ObjectVsBroadPhaseLayerFilter"
            /\ argLayer1 \in ObjectLayers) =>
          \A b \in ObjectLayers :
              argLayer2 = BroadPhaseLayerOf(b) =>
                  /\ layerCall.outcome = "returned"
                  /\ layerCall.value =
                        ObjectLayerPairFilter_ShouldCollide(argLayer1, b)

\* C26: the pair filter let a non-moving object collide with a moving one,
\* whose broad-phase layer is BP_MOVING
C26_Witness ==
    /\ layerCall.fn = "ObjectLayerPairFilter"
    /\ argLayer1 = NON_MOVING /\ argLayer2 = MOVING
    /\ layerCall.outcome = "returned" /\ layerCall.value = TRUE
    /\ BroadPhaseLayerOf(MOVING) = BP_MOVING

---------------------------------------------------------------------------
(* C27 *)

\* C27: in the program, once an update call has found the sphere asleep
\* (it returned false), the published sphere_position is the position the
\* sphere rests at.
C27_PublishedIsRestingPosition ==
    (pc = "loop" /\ frames > 0 /\ HasSphere /\ ~SphereAwake /\ ~lastReturn) =>
        sphere_position = Sphere.y

====
